---- MODULE Spec2Model ----
(***************************************************************************)
(* A model of the dining concierge lambdas:                                *)
(*   lf1.py  the Lex code hook (one dialog turn per invocation),           *)
(*   lf2.py  the SQS consumer (one batch of records per invocation).       *)
(* Python dicts are records; a key a dict does not hold has the value      *)
(* Absent, and a key holding None has the value PyNone.                    *)
(***************************************************************************)
EXTENDS Naturals, Sequences, FiniteSets

VARIABLES
    event,       \* lf1: the Lex event of the turn handled last
    sqsUp,       \* lf1: whether SQS accepts the send_message of that turn
    outcome,     \* lf1: what lambda_handler did: a response, None, or a raise
    sendCalls,   \* lf1: MessageAttributes of each sqs.send_message call of the turn
    elicited,    \* lf1: the slots the turns of the conversation elicited, in order
    records,     \* lf2: event["Records"], the batch delivered by SQS
    env,         \* lf2: per record, what OpenSearch, DynamoDB and SES answer
    pos,         \* lf2: the records the loop of lambda_handler has processed
    jobs,        \* lf2: per processed record, what the body of the loop did
    failures,    \* lf2: the failures list
    outbox,      \* lf2: the e-mails SES accepted, in order
    response,    \* lf2: the value lambda_handler returned
    trace,       \* lf2: the steps lambda_handler took, in order, by record
    min_results,    \* scraperv2: args.min_results
    seen,           \* scraperv2: the ids put so far
    collected,      \* scraperv2: the count of items put
    offset,         \* scraperv2: the offset of the next page
    total_from_api, \* scraperv2: the total of the first page, None before it
    requested,      \* scraperv2: limit and offset of each fetch_page call
    written,        \* scraperv2: the ids of the batch.put_item calls, in order
    stopped         \* scraperv2: how the loop of main ended, "running" before

dialogVars == <<event, sqsUp, outcome, sendCalls, elicited>>

workerVars == <<records, env, pos, jobs, failures, outbox, response, trace>>

scraperVars == <<min_results, seen, collected, offset, total_from_api,
                 requested, written, stopped>>

vars == <<event, sqsUp, outcome, sendCalls, elicited,
          records, env, pos, jobs, failures, outbox, response, trace,
          min_results, seen, collected, offset, total_from_api,
          requested, written, stopped>>

Absent == "<absent>"
PyNone == "<None>"

\* ------------------------------------------------------------------ bounds

\* Slots in the slot map of an event.
MaxSlots == 3

\* Records in a batch of several jobs.
MaxJobs == 3

\* Attribute keys of a record that differ from the producer's payload.
MaxEdits == 2

\* ------------------------------------------------------- lf1: the events

DeclaredOrder == <<"date", "city", "count", "cuisine", "location", "email", "diningTime">>

\* The value a slot of the event can have.
SlotNone        == [shape |-> "None", value |-> Absent,  interp |-> Absent]
SlotNoValue     == [shape |-> "dict", value |-> PyNone,  interp |-> Absent]
SlotNoInterp    == [shape |-> "dict", value |-> "dict",  interp |-> Absent]
SlotEmptyInterp == [shape |-> "dict", value |-> "dict",  interp |-> ""]
SlotFilled(v)   == [shape |-> "dict", value |-> "dict",  interp |-> v]
SlotStr         == [shape |-> "str",  value |-> Absent,  interp |-> Absent]
SlotValueStr    == [shape |-> "dict", value |-> "str",   interp |-> Absent]

SlotValues ==
    {SlotNone, SlotNoValue, SlotNoInterp, SlotEmptyInterp, SlotFilled("4"),
     SlotStr, SlotValueStr}

RECURSIVE SlotMaps(_)
\* The slot maps of n slots, named in declared order.
SlotMaps(n) ==
    IF n = 0 THEN {<<>>}
    ELSE {Append(m, [name |-> DeclaredOrder[n], slot |-> s]) :
             m \in SlotMaps(n - 1), s \in SlotValues}

\* A slot the intent declares that slot_prompts does not list.
UnlistedSlot == "phone"

\* Slot maps holding the unlisted slot after a listed one.
UnlistedSlotMaps ==
    {<<[name |-> "date", slot |-> a], [name |-> UnlistedSlot, slot |-> b]>> :
        a \in SlotValues, b \in SlotValues}

IntentNames == {"DiningSuggestionIntent", "GreetingIntent", "ThanksIntent",
                "FallbackIntent", Absent}

InvocationSources == {"DialogCodeHook", "FulfillmentCodeHook", Absent}

Events ==
    [name             : IntentNames,
     slotsKind        : {"dict"},
     slots            : UNION {SlotMaps(n) : n \in 0..MaxSlots} \cup UnlistedSlotMaps,
     invocationSource : InvocationSources,
     inputTranscript  : {Absent, "", "hi"}]
    \cup
    [name             : IntentNames,
     slotsKind        : {Absent, PyNone},
     slots            : {<<>>},
     invocationSource : InvocationSources,
     inputTranscript  : {Absent, "hi"}]

\* ------------------------------------------------------ lf1: the outcome

NoOutcome ==
    [kind |-> "init", type |-> "", slotToElicit |-> "", state |-> "",
     slots |-> <<>>, messages |-> <<>>, error |-> ""]

Response(type, slotToElicit, state, slots, messages, error) ==
    [kind |-> "return", type |-> type, slotToElicit |-> slotToElicit,
     state |-> state, slots |-> slots, messages |-> messages, error |-> error]

\* A function that falls off its end returns None.
ReturnNone == [NoOutcome EXCEPT !.kind = "None"]

Raise(e) == [NoOutcome EXCEPT !.kind = "raise", !.error = e]

\* The state of event["sessionState"]["intent"], which Delegate echoes.
EchoedState == "<state of the event's intent>"

\* ----------------------------------------------------- lf1: the handlers

\* A handler's result: what it returns or raises, and its send_message calls.
Handled(out, calls) == [out |-> out, calls |-> calls]

\* event.get("invocationSource", "")
GetInvocationSource(ev) ==
    IF ev.invocationSource = Absent THEN "" ELSE ev.invocationSource

ThanksClose ==
    Response("Close", "", "Fulfilled", <<>>, <<"You're very welcome!">>, "")

\* thanks_handler with the dialog-phase branch taken in every phase.
thanks_handler_silent(ev) ==
    Handled(Response("Delegate", "", EchoedState, ev.slots, <<>>, ""), <<>>)

\* The dialog hook does not speak: it delegates, echoing the event's intent.
thanks_handler(ev) ==
    IF GetInvocationSource(ev) # "DialogCodeHook"
    THEN Handled(ThanksClose, <<>>)
    ELSE Handled(Response("Delegate", "", EchoedState, ev.slots, <<>>, ""), <<>>)

GreetingClose ==
    Response("Close", "", "Fulfilled", <<>>,
             <<"Hi there, how can I help you today?">>, "")

\* greeting_handler answering in the dialog phase as well.
greeting_handler_speaks(ev) == Handled(GreetingClose, <<>>)

greeting_handler(ev) ==
    IF GetInvocationSource(ev) # "DialogCodeHook"
    THEN Handled(GreetingClose, <<>>)
    ELSE Handled(Response("Delegate", "", EchoedState, ev.slots, <<>>, ""), <<>>)

\* Python truth of a slot, and of slot.get("value").
Truthy(s) == s.shape # "None"
ValueTruthy(s) == s.value \in {"dict", "str"}

AttributeErrorStr == "'str' object has no attribute 'get'"

\* The scan keeping the last slot it finds empty: a loop without the break.
LastEmptySlot(slots, k) ==
    LET E == {i \in k..Len(slots) :
                 ~Truthy(slots[i].slot) \/ ~ValueTruthy(slots[i].slot)}
    IN  IF E = {} THEN [st |-> "none", name |-> ""]
        ELSE [st |-> "found", name |-> slots[CHOOSE i \in E : \A j \in E : j <= i].name]

RECURSIVE FirstEmptySlot(_, _)
\* The loop that finds the slot to elicit, from position k on: the first slot
\* that is falsy or whose "value" is falsy; a slot that is no dict raises.
FirstEmptySlot(slots, k) ==
    IF k > Len(slots) THEN [st |-> "none", name |-> ""]
    ELSE LET s == slots[k].slot IN
         IF ~Truthy(s) THEN [st |-> "found", name |-> slots[k].name]
         ELSE IF s.shape = "str" THEN [st |-> "error", name |-> slots[k].name]
         ELSE IF ~ValueTruthy(s) THEN [st |-> "found", name |-> slots[k].name]
         ELSE FirstEmptySlot(slots, k + 1)

\* slot_prompts.get(slot_to_elicit, fallback)
SlotPrompt(name) ==
    CASE name = "date"       -> "What date would you like the reservation for?"
      [] name = "city"       -> "Which city?"
      [] name = "count"      -> "How many people?"
      [] name = "cuisine"    -> "What type of cuisine?"
      [] name = "location"   -> "Which location?"
      [] name = "email"      -> "What is your email address?"
      [] name = "diningTime" -> "At what time?"
      [] OTHER               -> "Please provide a value for " \o name \o "."

OpeningMessage == "Hi there! I'm your personal Concierge. How can I help?"

\* The opening sent on every turn, with or without input.
OpeningMessagesAlways(ev) == <<OpeningMessage>>

\* The messages list before the prompt: the opening when there is no input.
OpeningMessages(ev) ==
    IF ev.inputTranscript \in {Absent, ""} THEN <<OpeningMessage>> ELSE <<>>

\* The ElicitSlot response echoing only the slots that hold a value.
ElicitSlotFilledOnly(ev, name) ==
    Response("ElicitSlot", name, "InProgress",
             SelectSeq(ev.slots, LAMBDA x : Truthy(x.slot) /\ ValueTruthy(x.slot)),
             OpeningMessages(ev) \o <<SlotPrompt(name)>>, "")

\* The ElicitSlot response: the prompt after the opening, the slots of the
\* event, state InProgress.
ElicitSlot(ev, name) ==
    Response("ElicitSlot", name, "InProgress", ev.slots,
             OpeningMessages(ev) \o <<SlotPrompt(name)>>, "")

\* Whether building the message attributes raises: .get on a str.
AttributesRaise(slots) ==
    \E k \in 1..Len(slots) :
        \/ slots[k].slot.shape = "str"
        \/ Truthy(slots[k].slot) /\ slots[k].slot.value = "str"

RECURSIVE Attributes(_, _)
\* The MessageAttributes built from the slots, from position k on.
Attributes(slots, k) ==
    IF k > Len(slots) THEN <<>>
    ELSE LET s == slots[k].slot IN
         IF Truthy(s) /\ ValueTruthy(s)
         THEN <<[key |-> slots[k].name, DataType |-> "String",
                 StringValue |-> IF s.interp = Absent THEN "" ELSE s.interp]>>
              \o Attributes(slots, k + 1)
         ELSE Attributes(slots, k + 1)

\* The phase test dropped: the request is sent whenever no slot is missing.
IsFulfillmentHookAlways(src) == TRUE

IsFulfillmentHook(src) == src = "FulfillmentCodeHook"

\* send_message called a second time with the same attributes.
PublishTwice(attrs) == <<attrs, attrs>>

\* The calls of sqs.send_message in the fulfillment branch.
Publish(attrs) == <<attrs>>

SentClose ==
    Response("Close", "", "Fulfilled", <<>>,
             <<"Thank you! Your reservation request has been sent.">>, "")

\* The fulfillment branch: build the attributes, send, close.
Fulfil(ev, up) ==
    IF AttributesRaise(ev.slots) THEN Handled(Raise(AttributeErrorStr), <<>>)
    ELSE LET calls == Publish(Attributes(ev.slots, 1)) IN
         IF up THEN Handled(SentClose, calls)
         ELSE Handled(Raise("An error occurred when calling the SendMessage operation"),
                      calls)

dining_suggestion_intent_handler(ev, up) ==
    IF ev.slotsKind = Absent THEN Handled(Raise("'slots'"), <<>>)
    ELSE IF ev.invocationSource = Absent
    THEN Handled(Raise("'invocationSource'"), <<>>)
    ELSE IF ev.slotsKind = PyNone
    THEN Handled(Raise("'NoneType' object has no attribute 'items'"), <<>>)
    ELSE LET scan == FirstEmptySlot(ev.slots, 1) IN
         IF scan.st = "error" THEN Handled(Raise(AttributeErrorStr), <<>>)
         ELSE IF scan.st = "found"
         THEN Handled(ElicitSlot(ev, scan.name), <<>>)
         ELSE IF IsFulfillmentHook(ev.invocationSource) THEN Fulfil(ev, up)
         ELSE Handled(Response("Delegate", "", EchoedState, ev.slots, <<>>, ""), <<>>)

\* The if/elif chain of lambda_handler; it has no else.
Dispatch(ev, up) ==
    IF ev.name = "DiningSuggestionIntent" THEN dining_suggestion_intent_handler(ev, up)
    ELSE IF ev.name = "GreetingIntent" THEN greeting_handler(ev)
    ELSE IF ev.name = "ThanksIntent" THEN thanks_handler(ev)
    ELSE Handled(ReturnNone, <<>>)

\* lf1.lambda_handler: the intent name is read before the try; an exception
\* of the chain becomes a Close/Failed response.
lambda_handler(ev, up) ==
    IF ev.name = Absent THEN Handled(Raise("'name'"), <<>>)
    ELSE LET h == Dispatch(ev, up) IN
         IF h.out.kind = "raise"
         THEN Handled(Response("Close", "", "Failed", <<>>,
                               <<"Oops! Something went wrong: " \o h.out.error>>,
                               h.out.error),
                      h.calls)
         ELSE h

\* ------------------------------------------------- lf1: the state machine

\* The hook keeps nothing between invocations: a turn is one event, and
\* whether SQS accepts a send_message during it.
\* lf2 before any batch is delivered.
NotReturned == [returned |-> FALSE, batchItemFailures |-> <<>>]

\* total_from_api before the first page (None), and once a page gave it.
NoTotal == [known |-> FALSE, value |-> 0]

Total(n) == [known |-> TRUE, value |-> n]

\* scraperv2 not run.
ScraperIdle ==
    /\ min_results = 0
    /\ seen = {}
    /\ collected = 0
    /\ offset = 0
    /\ total_from_api = NoTotal
    /\ requested = <<>>
    /\ written = <<>>
    /\ stopped = "running"

WorkerIdle ==
    /\ records = <<>>
    /\ env = <<>>
    /\ pos = 0
    /\ jobs = <<>>
    /\ failures = <<>>
    /\ outbox = <<>>
    /\ response = NotReturned
    /\ trace = <<>>

InitDialog ==
    /\ event \in Events
    /\ sqsUp \in BOOLEAN
    /\ outcome = NoOutcome
    /\ sendCalls = <<>>
    /\ elicited = <<>>
    /\ WorkerIdle
    /\ ScraperIdle

\* One turn: Lex invokes lambda_handler with the event.
HandleTurn ==
    /\ outcome.kind = "init"
    /\ LET h == lambda_handler(event, sqsUp) IN
        /\ outcome' = h.out
        /\ sendCalls' = h.calls
        /\ elicited' = IF h.out.kind = "return" /\ h.out.type = "ElicitSlot"
                       THEN Append(elicited, h.out.slotToElicit)
                       ELSE elicited
    /\ UNCHANGED <<event, sqsUp>>
    /\ UNCHANGED workerVars
    /\ UNCHANGED scraperVars

NextDialog == HandleTurn

SpecDialog == InitDialog /\ [][NextDialog]_vars

\* ------------------------------------------------- lf1: the conversation

\* The slots of a conversation's first event: not yet filled (None, or no
\* value), or holding a value.
TurnSlotValues ==
    {SlotNone, SlotNoValue, SlotNoInterp, SlotEmptyInterp, SlotFilled("4")}

\* The first event of a slot-filling conversation.
FirstEvents ==
    {ev \in Events :
        /\ ev.name = "DiningSuggestionIntent"
        /\ ev.slotsKind = "dict"
        /\ ev.invocationSource # Absent
        /\ \A k \in 1..Len(ev.slots) : ev.slots[k].slot \in TurnSlotValues}

\* The slot map with the named slot given a value.
Filled(slots, name) ==
    [k \in 1..Len(slots) |->
        IF slots[k].name = name
        THEN [name |-> name, slot |-> SlotFilled("4")]
        ELSE slots[k]]

InitConversation ==
    /\ event \in FirstEvents
    /\ sqsUp \in BOOLEAN
    /\ outcome = NoOutcome
    /\ sendCalls = <<>>
    /\ elicited = <<>>
    /\ WorkerIdle
    /\ ScraperIdle

\* Lex invokes the hook again after ElicitSlot or Delegate: the event holds
\* the slots of the response, the elicited slot now filled by the user's
\* answer, in either phase.
ReEnter ==
    /\ outcome.kind = "return"
    /\ outcome.type \in {"ElicitSlot", "Delegate"}
    /\ \E src \in {"DialogCodeHook", "FulfillmentCodeHook"}, said \in {"", "hi"} :
          event' = [event EXCEPT
                      !.slots = IF outcome.type = "ElicitSlot"
                                THEN Filled(outcome.slots, outcome.slotToElicit)
                                ELSE outcome.slots,
                      !.invocationSource = src,
                      !.inputTranscript = said]
    /\ outcome' = NoOutcome
    /\ sendCalls' = <<>>
    /\ UNCHANGED <<sqsUp, elicited>>
    /\ UNCHANGED workerVars
    /\ UNCHANGED scraperVars

NextConversation == HandleTurn \/ ReEnter

SpecConversation == InitConversation /\ [][NextConversation]_vars

\* --------------------------------------------------------- lf1: the claims

TurnDone == outcome.kind # "init"

Dining == event.name = "DiningSuggestionIntent"

AckIntent == event.name \in {"GreetingIntent", "ThanksIntent"}

CloseWith(state) ==
    outcome.kind = "return" /\ outcome.type = "Close" /\ outcome.state = state

\* C1: an intent name that is none of the three recognized ones yields an
\* error outcome the caller can see (a raise or Close/Failed), never None.
C1_UnrecognizedIntentIsError ==
    (TurnDone /\ event.name \notin
        {"DiningSuggestionIntent", "GreetingIntent", "ThanksIntent", Absent})
    => \/ outcome.kind = "raise"
       \/ CloseWith("Failed")

\* C2: no fault leaves lambda_handler; every error raised in the turn ends as
\* Close/Failed with one message, and a failed publish is never Fulfilled.
C2_ErrorsBecomeCloseFailed ==
    TurnDone =>
        /\ outcome.kind # "raise"
        /\ outcome.error # "" => CloseWith("Failed") /\ Len(outcome.messages) = 1
        /\ (sendCalls # <<>> /\ ~sqsUp) => outcome.state # "Fulfilled"

\* Every slot holds a value whose interpreted value is not empty.
AllSlotsFilled(ev) ==
    /\ ev.slotsKind = "dict"
    /\ \A k \in 1..Len(ev.slots) :
          /\ ev.slots[k].slot.shape = "dict"
          /\ ev.slots[k].slot.value = "dict"
          /\ ev.slots[k].slot.interp \notin {Absent, ""}

\* The one send_message call carries every slot of the event, in order.
CarriesAllSlots ==
    /\ Len(sendCalls) = 1
    /\ Len(sendCalls[1]) = Len(event.slots)
    /\ \A k \in 1..Len(event.slots) :
          /\ sendCalls[1][k].key = event.slots[k].name
          /\ sendCalls[1][k].DataType = "String"
          /\ sendCalls[1][k].StringValue = event.slots[k].slot.interp

FulfillmentTurn ==
    /\ TurnDone
    /\ Dining
    /\ AllSlotsFilled(event)
    /\ event.invocationSource = "FulfillmentCodeHook"

\* C3 as stated: a dining turn with all slots filled in the fulfillment phase
\* ends Close/Fulfilled with exactly one publish carrying the slot set.
C3_FulfillmentPublishesOnce ==
    (FulfillmentTurn /\ Len(event.slots) >= 1)
    => CloseWith("Fulfilled") /\ CarriesAllSlots

\* C3 amended: send_message is called exactly once with the complete slot
\* set; the turn ends Close/Fulfilled when SQS accepts the call, and
\* Close/Failed when the call raises.
C3_PublishesOnceFulfilledIfAccepted ==
    FulfillmentTurn =>
        /\ CarriesAllSlots
        /\ sqsUp => CloseWith("Fulfilled")
        /\ ~sqsUp => CloseWith("Failed")

C3_Witness ==
    /\ FulfillmentTurn
    /\ Len(event.slots) >= 2
    /\ sqsUp
    /\ CloseWith("Fulfilled")
    /\ Len(sendCalls) = 1

\* C4: a dining turn with no slot missing outside the fulfillment phase is
\* Delegate with no message and no publish; and no turn that ends ElicitSlot
\* or Delegate, and no turn of the dialog phase, has published.
C4_NoPublishBeforeFulfillment ==
    TurnDone =>
        /\ ( /\ Dining
             /\ event.slotsKind = "dict"
             /\ FirstEmptySlot(event.slots, 1).st = "none"
             /\ event.invocationSource \notin {Absent, "FulfillmentCodeHook"} )
           => /\ outcome.kind = "return"
              /\ outcome.type = "Delegate"
              /\ outcome.messages = <<>>
              /\ sendCalls = <<>>
        /\ (outcome.kind = "return" /\ outcome.type \in {"ElicitSlot", "Delegate"})
           => sendCalls = <<>>
        /\ event.invocationSource = "DialogCodeHook" => sendCalls = <<>>

C4_Witness ==
    /\ TurnDone
    /\ Dining
    /\ AllSlotsFilled(event)
    /\ Len(event.slots) >= 2
    /\ event.invocationSource = "DialogCodeHook"
    /\ outcome.type = "Delegate"

\* A slot the specification counts as missing: no value, or a value whose
\* interpreted value is the empty string.
MissingPerSpec(s) == ~Truthy(s) \/ ~ValueTruthy(s) \/ s.interp = ""

MissingSlots(ev) ==
    {k \in 1..Len(ev.slots) : MissingPerSpec(ev.slots[k].slot)}

FirstMissing(ev) ==
    CHOOSE k \in MissingSlots(ev) : \A j \in MissingSlots(ev) : k <= j

\* A slot map of well-formed slots: none, no value, or a value with an
\* interpreted value (empty or not).
WellFormedSlots(ev) ==
    /\ ev.slotsKind = "dict"
    /\ \A k \in 1..Len(ev.slots) :
          ev.slots[k].slot \in {SlotNone, SlotNoValue, SlotEmptyInterp, SlotFilled("4")}

\* C5: ElicitSlot is returned whenever a slot is missing (no value, or an
\* empty interpreted value), and names the first such slot in declared order.
C5_FirstEmptyWins ==
    (TurnDone /\ Dining /\ WellFormedSlots(event) /\ event.invocationSource # Absent)
    => /\ MissingSlots(event) # {}
          => /\ outcome.kind = "return"
             /\ outcome.type = "ElicitSlot"
             /\ outcome.slotToElicit = event.slots[FirstMissing(event)].name
       /\ (outcome.kind = "return" /\ outcome.type = "ElicitSlot")
          => MissingSlots(event) # {}

\* C6: an acknowledgement intent in the dialog phase is Delegate, no message.
C6_AckDelegatesInDialog ==
    (TurnDone /\ AckIntent /\ event.invocationSource = "DialogCodeHook")
    => /\ outcome.kind = "return"
       /\ outcome.type = "Delegate"
       /\ outcome.messages = <<>>

C6_Witness ==
    /\ TurnDone
    /\ event.name = "GreetingIntent"
    /\ event.invocationSource = "DialogCodeHook"
    /\ outcome.type = "Delegate"

\* C7: an acknowledgement intent in the fulfillment phase is Close/Fulfilled
\* with exactly one message.
C7_AckClosesInFulfillment ==
    (TurnDone /\ AckIntent /\ event.invocationSource = "FulfillmentCodeHook")
    => /\ CloseWith("Fulfilled")
       /\ Len(outcome.messages) = 1

C7_Witness ==
    /\ TurnDone
    /\ event.name = "ThanksIntent"
    /\ event.invocationSource = "FulfillmentCodeHook"
    /\ CloseWith("Fulfilled")

Elicits == outcome.kind = "return" /\ outcome.type = "ElicitSlot"

\* C15: a turn that ends ElicitSlot is a dining turn whose response has state
\* InProgress and carries the slot map of the event, slot for slot: same
\* names, same order, same values.
C15_ElicitKeepsSlots ==
    (TurnDone /\ Elicits)
    => /\ Dining
       /\ outcome.state = "InProgress"
       /\ Len(outcome.slots) = Len(event.slots)
       /\ \A k \in 1..Len(event.slots) :
             /\ outcome.slots[k].name = event.slots[k].name
             /\ outcome.slots[k].slot = event.slots[k].slot

C15_Witness ==
    /\ TurnDone
    /\ Elicits
    /\ Len(event.slots) = 3
    /\ event.slots[1].slot = SlotFilled("4")
    /\ event.slots[2].slot = SlotNoValue
    /\ event.slots[3].slot = SlotFilled("4")
    /\ outcome.slotToElicit = "city"
    /\ outcome.slots = event.slots

\* The names slot_prompts lists.
ListedSlots == {DeclaredOrder[k] : k \in 1..Len(DeclaredOrder)}

\* C16: a turn that ends ElicitSlot has the messages [opening, prompt] when
\* the event has no input transcript (absent or empty) and [prompt]
\* otherwise; the prompt of a listed slot is its entry in slot_prompts, that
\* of an unlisted slot the fallback naming the slot; and a dining turn whose
\* scan finds a slot to elicit always ends ElicitSlot, listed or not.
C16_ElicitMessages ==
    TurnDone =>
        /\ Elicits =>
              LET name   == outcome.slotToElicit
                  prompt == outcome.messages[Len(outcome.messages)]
              IN  /\ Len(outcome.messages) =
                        IF event.inputTranscript \in {Absent, ""} THEN 2 ELSE 1
                  /\ Len(outcome.messages) = 2 => outcome.messages[1] = OpeningMessage
                  /\ name \in ListedSlots =>
                        /\ prompt = SlotPrompt(name)
                        /\ prompt # "Please provide a value for " \o name \o "."
                  /\ name \notin ListedSlots =>
                        prompt = "Please provide a value for " \o name \o "."
        /\ ( /\ Dining
             /\ event.slotsKind = "dict"
             /\ event.invocationSource # Absent
             /\ FirstEmptySlot(event.slots, 1).st = "found" )
           => /\ Elicits
              /\ outcome.slotToElicit = FirstEmptySlot(event.slots, 1).name

C16_Witness ==
    /\ TurnDone
    /\ Elicits
    /\ event.inputTranscript = Absent
    /\ outcome.slotToElicit = UnlistedSlot
    /\ outcome.messages = <<OpeningMessage, "Please provide a value for phone.">>

\* The positions, in the event's slot map, of the slots elicited so far.
ElicitedPositions ==
    [i \in 1..Len(elicited) |->
        CHOOSE k \in 1..Len(event.slots) : event.slots[k].name = elicited[i]]

\* Over the turns of a conversation the hook elicits at most once per slot
\* of the map, each time a slot later in the map than the one before.
ElicitsAdvance ==
    /\ Len(elicited) <= Len(event.slots)
    /\ \A i \in 1..Len(elicited), j \in 1..Len(elicited) :
          i < j => ElicitedPositions[i] < ElicitedPositions[j]

\* A turn of the fulfillment phase with no slot left to fill.
FilledFulfillmentTurn ==
    /\ TurnDone
    /\ event.invocationSource = "FulfillmentCodeHook"
    /\ \A k \in 1..Len(event.slots) :
          event.slots[k].slot \notin {SlotNone, SlotNoValue}

\* C21 as stated: the elicited slots advance through the map, at most one
\* elicit per slot, and a fulfillment turn with no slot left to fill ends
\* Close/Fulfilled.
C21_ConversationEndsFulfilled ==
    /\ ElicitsAdvance
    /\ FilledFulfillmentTurn => CloseWith("Fulfilled")

\* C21 amended: the elicited slots advance through the map, at most one
\* elicit per slot, and a fulfillment turn with no slot left to fill ends the
\* conversation: Close/Fulfilled when SQS accepts the send_message, and
\* Close/Failed when it raises.
C21_ConversationEndsClosed ==
    /\ ElicitsAdvance
    /\ FilledFulfillmentTurn =>
          /\ sqsUp => CloseWith("Fulfilled")
          /\ ~sqsUp => CloseWith("Failed")
          /\ Len(sendCalls) = 1

C21_Witness ==
    /\ elicited = <<"date", "city", "count">>
    /\ FilledFulfillmentTurn
    /\ sqsUp
    /\ CloseWith("Fulfilled")
    /\ Len(sendCalls) = 1
    /\ Len(sendCalls[1]) = 3

\* ------------------------------------------------------ lf2: the records

RESULT_LIMIT == 3

FieldKeys == {"City", "city", "count", "cuisine", "date", "diningTime", "email",
              "location"}

\* attrs.get(n) of a key messageAttributes does not hold.
NoEntry ==
    [present |-> FALSE, dataType |-> Absent, DataType |-> Absent,
     stringValue |-> Absent, StringValue |-> Absent]

\* An attribute as the SQS event source writes it ...
EntryLower(t, sv) ==
    [present |-> TRUE, dataType |-> t, DataType |-> Absent,
     stringValue |-> sv, StringValue |-> Absent]

\* ... and as the SQS API (send_message) writes it.
EntryUpper(t, sv) ==
    [present |-> TRUE, dataType |-> Absent, DataType |-> t,
     stringValue |-> Absent, StringValue |-> sv]

\* The value the producer sends for each key.
BaseValue(key) ==
    CASE key \in {"City", "city"} -> "Manhattan"
      [] key = "count"      -> "4"
      [] key = "cuisine"    -> "thai"
      [] key = "date"       -> "2025-10-10"
      [] key = "diningTime" -> "19:00"
      [] key = "email"      -> "ann@x.io"
      [] key = "location"   -> "soho"

\* The string values a key is given.
KeyValues(key) ==
    CASE key = "count" -> {"4", "0", "four"}
      [] key = "email" -> {"ann@x.io", "nobody"}
      [] OTHER         -> {BaseValue(key)}

\* What messageAttributes holds for a key, and what attributes holds for it.
KeyStates(key) ==
    [ma  : {NoEntry, EntryLower("String", ""), EntryLower("Number", BaseValue(key)),
            EntryUpper("String", BaseValue(key))}
           \cup {EntryLower("String", v) : v \in KeyValues(key)},
     sys : {Absent, "", BaseValue(key)}]

\* The record lf1's message becomes: every slot a String attribute, lower-case
\* keys, nothing under attributes.
BaseState(key) ==
    IF key = "City" THEN [ma |-> NoEntry, sys |-> Absent]
    ELSE [ma |-> EntryLower("String", BaseValue(key)), sys |-> Absent]

Record(id, st) ==
    [messageId         |-> id,
     messageAttributes |-> [k \in FieldKeys |-> st[k].ma],
     attributes        |-> [k \in FieldKeys |-> st[k].sys]]

RECURSIVE EditedStates(_)
\* The producer's payload with the keys of E set to any of their states.
EditedStates(E) ==
    IF E = {} THEN {[k \in FieldKeys |-> BaseState(k)]}
    ELSE LET k == CHOOSE x \in E : TRUE IN
         {[st EXCEPT ![k] = x] : st \in EditedStates(E \ {k}), x \in KeyStates(k)}

\* ---------------------------------------------------- lf2: normalization

\* Python's `a or b` on strings and None.
PyOr(a, b) == IF a \notin {Absent, ""} THEN a ELSE b

RECURSIVE JoinNames(_, _)
\* ', '.join(names), from position k on.
JoinNames(names, k) ==
    IF k = Len(names) THEN names[k]
    ELSE names[k] \o ", " \o JoinNames(names, k + 1)

RECURSIVE FromMessageAttributes(_, _, _)
\* The first loop of _sqs_strattr: the first name that is a String attribute
\* with a non-empty string value.
FromMessageAttributes(record, names, k) ==
    IF k > Len(names) THEN Absent
    ELSE LET v  == record.messageAttributes[names[k]]
             sv == PyOr(v.stringValue, v.StringValue)
         IN  IF v.present /\ PyOr(v.dataType, v.DataType) = "String"
                /\ sv \notin {Absent, ""}
             THEN sv
             ELSE FromMessageAttributes(record, names, k + 1)

RECURSIVE FromAttributesKeepEmpty(_, _, _)
\* The fallback loop returning whatever the key holds, '' included.
FromAttributesKeepEmpty(record, names, k) ==
    IF k > Len(names) THEN Absent
    ELSE IF record.attributes[names[k]] # Absent
         THEN record.attributes[names[k]]
         ELSE FromAttributesKeepEmpty(record, names, k + 1)

RECURSIVE FromAttributes(_, _, _)
\* The fallback loop of _sqs_strattr: the first name attributes holds with a
\* value other than ''.
FromAttributes(record, names, k) ==
    IF k > Len(names) THEN Absent
    ELSE IF record.attributes[names[k]] \notin {Absent, ""}
         THEN record.attributes[names[k]]
         ELSE FromAttributes(record, names, k + 1)

MissingAttribute(names) ==
    "Missing SQS message attribute (tried: " \o JoinNames(names, 1) \o ")"

\* _sqs_strattr(record, *names), required: the value, or the ValueError.
sqs_strattr(record, names) ==
    LET a == FromMessageAttributes(record, names, 1)
        b == FromAttributes(record, names, 1)
    IN  IF a # Absent THEN [ok |-> TRUE, value |-> a, error |-> ""]
        ELSE IF b # Absent THEN [ok |-> TRUE, value |-> b, error |-> ""]
        ELSE [ok |-> FALSE, value |-> Absent, error |-> MissingAttribute(names)]

\* The names each attribute is read under, in the order lambda_handler reads
\* them: city, count, cuisine, date, diningTime, email, location.
FieldNames ==
    << <<"City", "city">>, <<"count">>, <<"cuisine">>, <<"date">>,
       <<"diningTime">>, <<"email">>, <<"location">> >>

\* int(s) on the strings the model gives a count: the numerals parse.
IntOf == [s \in {"4", "0"} |-> IF s = "4" THEN 4 ELSE 0]

IsNumeral(s) == s \in DOMAIN IntOf

\* The count's parse failure reported as a missing attribute.
NotAnIntegerAsMissing(s) == MissingAttribute(<<"count">>)

NotAnInteger(s) == "Attribute 'count' is not an integer: '" \o s \o "'"

NoMessage ==
    [cuisine |-> Absent, email |-> Absent, time |-> Absent, number_of_people |-> 0,
     city |-> Absent, date |-> Absent, diningTime |-> Absent, location |-> Absent,
     count |-> Absent]

\* The seven reads with city and location bound to each other's value.
BuildMessageSwapped(record) ==
    LET x == [k \in 1..Len(FieldNames) |-> sqs_strattr(record, FieldNames[k])]
    IN  IF \E k \in 1..Len(FieldNames) : ~x[k].ok \/ ~IsNumeral(x[2].value)
        THEN [ok |-> FALSE, msg |-> NoMessage, error |-> "ValueError"]
        ELSE [ok |-> TRUE, error |-> "",
              msg |-> [cuisine |-> x[3].value, email |-> x[6].value,
                       time |-> x[4].value \o " " \o x[5].value,
                       number_of_people |-> IntOf[x[2].value],
                       city |-> x[7].value, date |-> x[4].value,
                       diningTime |-> x[5].value, location |-> x[1].value,
                       count |-> x[2].value]]

\* The try body of lambda_handler up to the call of _process_one_message:
\* the seven reads in order, the first missing one raising; then int(count).
\* The message's "name" is derived from the e-mail and read by nothing.
BuildMessage(record) ==
    LET x == [k \in 1..Len(FieldNames) |-> sqs_strattr(record, FieldNames[k])]
        bad == {k \in 1..Len(FieldNames) : ~x[k].ok}
    IN  IF bad # {}
        THEN [ok |-> FALSE, msg |-> NoMessage,
              error |-> x[CHOOSE k \in bad : \A j \in bad : k <= j].error]
        ELSE IF ~IsNumeral(x[2].value)
        THEN [ok |-> FALSE, msg |-> NoMessage, error |-> NotAnInteger(x[2].value)]
        ELSE [ok |-> TRUE, error |-> "",
              msg |-> [cuisine |-> x[3].value, email |-> x[6].value,
                       time |-> x[4].value \o " " \o x[5].value,
                       number_of_people |-> IntOf[x[2].value],
                       city |-> x[1].value, date |-> x[4].value,
                       diningTime |-> x[5].value, location |-> x[7].value,
                       count |-> x[2].value]]

\* ------------------------------------------------ lf2: the collaborators

\* The business ids, in the order DynamoDB lists them.
Ids == <<"A", "B", "C">>

IdSet == {Ids[k] : k \in 1..Len(Ids)}

\* A search hit: its _id, and _source.business_id when the index holds it.
Hits ==
    {[id |-> x, business_id |-> Absent] : x \in IdSet}
    \cup {[id |-> "doc-" \o x, business_id |-> x] : x \in IdSet}

\* What the index returns: at most `size` hits, in rank order.
HitSeqs == UNION {[1..n -> Hits] : n \in 0..RESULT_LIMIT}

\* The item the table holds for an id.
StoreItem(id) ==
    CASE id = "A" -> [business_id |-> "A", name |-> "Thai Villa",
                      address |-> "5 E 19th St", rating |-> "4.5",
                      review_count |-> "812", website |-> "thaivilla.example"]
      [] id = "B" -> [business_id |-> "B", name |-> "Soothr",
                      address |-> "204 E 13th St", review_count |-> "95"]
      [] OTHER    -> [business_id |-> id, name |-> "Fish Cheeks"]

\* What the collaborators answer for one record.
EnvOk(hits, found, rev) ==
    [searchOk |-> TRUE, hits |-> hits, ddbOk |-> TRUE, found |-> found,
     reversed |-> rev, sesOk |-> TRUE]

TwoHits == <<[id |-> "doc-B", business_id |-> "B"], [id |-> "A", business_id |-> Absent]>>

EnvTypical == EnvOk(TwoHits, {"A"}, FALSE)

EnvSearchDown == [EnvTypical EXCEPT !.searchOk = FALSE]

EnvStoreDown == [EnvTypical EXCEPT !.ddbOk = FALSE]

EnvSesDown == [EnvTypical EXCEPT !.sesOk = FALSE]

SmallEnvs == {EnvTypical, EnvSearchDown, EnvStoreDown, EnvSesDown}

\* ----------------------------------------------------- lf2: the pipeline

\* src.get("business_id") or h.get("_id")
BusinessIdOf(h) == PyOr(h.business_id, h.id)

RECURSIVE BusinessIds(_, _)
\* The ids of the hits that have one, in hit order, from position k on.
BusinessIds(hits, k) ==
    IF k > Len(hits) THEN <<>>
    ELSE IF BusinessIdOf(hits[k]) \notin {Absent, ""}
         THEN <<BusinessIdOf(hits[k])>> \o BusinessIds(hits, k + 1)
         ELSE BusinessIds(hits, k + 1)

RECURSIVE ItemsInIdOrder(_, _)
\* The items of the ids in S, in id order, from position k of Ids on.
ItemsInIdOrder(S, k) ==
    IF k > Len(Ids) THEN <<>>
    ELSE IF Ids[k] \in S THEN <<StoreItem(Ids[k])>> \o ItemsInIdOrder(S, k + 1)
         ELSE ItemsInIdOrder(S, k + 1)

Reverse(q) == [k \in 1..Len(q) |-> q[Len(q) + 1 - k]]

\* resp["Responses"][DDB_TABLE]: the items of the requested keys the table
\* holds, in an order of DynamoDB's choosing.
ItemsReturned(business_ids, e) ==
    LET S == {business_ids[k] : k \in 1..Len(business_ids)} \cap e.found
        q == ItemsInIdOrder(S, 1)
    IN  IF e.reversed THEN Reverse(q) ELSE q

RECURSIVE ById(_, _)
\* The dict the loop over the items builds, keyed by business_id.
ById(items, n) ==
    IF n = 0 THEN [x \in {} |-> <<>>]
    ELSE LET m == ById(items, n - 1)
             b == items[n].business_id
         IN  [x \in DOMAIN m \cup {b} |-> IF x = b THEN items[n] ELSE m[x]]

\* _batch_get_businesses: no call for no ids.
batch_get_businesses(business_ids, e) ==
    IF business_ids = <<>> THEN [x \in {} |-> <<>>]
    ELSE LET items == ItemsReturned(business_ids, e) IN ById(items, Len(items))

RECURSIVE OrderedItemsFoundOnly(_, _)
\* The list comprehension keeping only the ids the table resolved.
OrderedItemsFoundOnly(business_ids, byId) ==
    IF business_ids = <<>> THEN <<>>
    ELSE IF Head(business_ids) \in DOMAIN byId
         THEN <<byId[Head(business_ids)]>>
              \o OrderedItemsFoundOnly(Tail(business_ids), byId)
         ELSE OrderedItemsFoundOnly(Tail(business_ids), byId)

\* [ddb_items_by_id.get(bid, {"business_id": bid}) for bid in business_ids]
OrderedItems(business_ids, byId) ==
    [k \in 1..Len(business_ids) |->
        IF business_ids[k] \in DOMAIN byId THEN byId[business_ids[k]]
        ELSE [business_id |-> business_ids[k]]]

\* b.get(key, default)
Get(b, key, default) == IF key \in DOMAIN b THEN b[key] ELSE default

\* str.capitalize() on the cuisines of the model.
Capitalize(c) == IF c = "thai" THEN "Thai" ELSE c

\* The parts _format_email_html puts into the markup.
format_email_html(city, time, num_people, cuisine, businesses) ==
    [count |-> Len(businesses), cuisine |-> Capitalize(cuisine),
     num_people |-> num_people, time |-> time, city |-> city,
     items |-> [k \in 1..Len(businesses) |->
                  [name         |-> Get(businesses[k], "name", "(name)"),
                   address      |-> Get(businesses[k], "address", "(address)"),
                   rating       |-> Get(businesses[k], "rating", "-"),
                   review_count |-> Get(businesses[k], "review_count", "-")]]]

\* The parts _format_email_text puts into the lines.
format_email_text(city, time, num_people, cuisine, businesses) ==
    [count |-> Len(businesses), cuisine |-> Capitalize(cuisine),
     num_people |-> num_people, time |-> time,
     items |-> [k \in 1..Len(businesses) |->
                  [index        |-> k,
                   name         |-> Get(businesses[k], "name", "(name)"),
                   address      |-> Get(businesses[k], "address", "(address)"),
                   website      |-> Get(businesses[k], "website", Absent),
                   rating       |-> Get(businesses[k], "rating", "-"),
                   review_count |-> Get(businesses[k], "review_count", "-")]]]

NoEmail == [to |-> Absent]

\* The body _search_top_restaurants_by_cuisine sends to the index.
SearchQuery(cuisine, limit) == [size |-> limit, match |-> cuisine]

NoQuery == [size |-> 0, match |-> Absent]

\* The table asked whatever the list of ids holds.
LookupCallsAlways(business_ids) == <<"batch_get_item">>

\* The calls _batch_get_businesses makes of the table: none for no ids.
LookupCalls(business_ids) ==
    IF business_ids = <<>> THEN <<>> ELSE <<"batch_get_item">>

\* What the try body of lambda_handler did for one record.
JobResult(error, msg, query, calls, ids, resolved, ordered, email, delivered) ==
    [error |-> error, msg |-> msg, query |-> query, calls |-> calls,
     business_ids |-> ids, resolved |-> resolved, ordered |-> ordered,
     email |-> email, delivered |-> delivered]

\* _process_one_message with the failures of the index and the table
\* swallowed: an e-mail of no results is sent whatever they answered.
process_one_message_always_sends(msg, e) ==
    LET email ==
            [to      |-> msg.email,
             subject |-> [count |-> 0, cuisine |-> Capitalize(msg.cuisine),
                          num_people |-> IntOf[msg.count],
                          time |-> msg.diningTime],
             html    |-> format_email_html(msg.city, msg.diningTime,
                             IntOf[msg.count], msg.cuisine, <<>>),
             text    |-> format_email_text(msg.city, msg.diningTime,
                             IntOf[msg.count], msg.cuisine, <<>>)]
    IN  JobResult("", msg, SearchQuery(msg.cuisine, RESULT_LIMIT),
                  <<"search", "send_email">>, <<>>, TRUE, <<>>, email, TRUE)

\* _process_one_message: search, batch get, format, send; the first call
\* that fails raises.
process_one_message(msg, e) ==
    LET query   == SearchQuery(msg.cuisine, RESULT_LIMIT)
        ids     == BusinessIds(e.hits, 1)
        lookup  == LookupCalls(ids)
        ordered == OrderedItems(ids, batch_get_businesses(ids, e))
        email   ==
            [to      |-> msg.email,
             subject |-> [count |-> Len(ordered),
                          cuisine |-> Capitalize(msg.cuisine),
                          num_people |-> IntOf[msg.count],
                          time |-> msg.diningTime],
             html    |-> format_email_html(msg.city, msg.diningTime,
                             IntOf[msg.count], msg.cuisine, ordered),
             text    |-> format_email_text(msg.city, msg.diningTime,
                             IntOf[msg.count], msg.cuisine, ordered)]
    IN  IF ~e.searchOk
        THEN JobResult("OpenSearch: search failed", msg, query, <<"search">>,
                       <<>>, FALSE, <<>>, NoEmail, FALSE)
        ELSE IF lookup # <<>> /\ ~e.ddbOk
        THEN JobResult("DynamoDB: batch_get_item failed", msg, query,
                       <<"search">> \o lookup, ids, FALSE, <<>>, NoEmail, FALSE)
        ELSE IF ~e.sesOk
        THEN JobResult("SES: send_email failed", msg, query,
                       <<"search">> \o lookup \o <<"send_email">>, ids, TRUE,
                       ordered, email, FALSE)
        ELSE JobResult("", msg, query, <<"search">> \o lookup \o <<"send_email">>,
                       ids, TRUE, ordered, email, TRUE)

\* The try body of lambda_handler for one record.
TryBody(record, e) ==
    LET b == BuildMessage(record) IN
    IF ~b.ok
    THEN JobResult(b.error, NoMessage, NoQuery, <<>>, <<>>, FALSE, <<>>, NoEmail,
                   FALSE)
    ELSE process_one_message(b.msg, e)

\* The steps of a pass with the attributes read after the pipeline ran.
StepsOfNormalizeLast(k, job) ==
    [i \in 1..Len(job.calls) |-> [record |-> k, step |-> job.calls[i]]]
    \o <<[record |-> k, step |-> "normalize"],
         [record |-> k, step |-> IF job.error = "" THEN "processed" ELSE "failed"]>>

\* The steps of one pass of the loop on record k, in the order taken: the
\* attributes read and the message built, the collaborators called, and the
\* pass ending processed or with the id appended to failures.
StepsOf(k, job) ==
    <<[record |-> k, step |-> "normalize"]>>
    \o [i \in 1..Len(job.calls) |-> [record |-> k, step |-> job.calls[i]]]
    \o <<[record |-> k, step |-> IF job.error = "" THEN "processed" ELSE "failed"]>>

\* The except clause appending only when the message could not be built.
FailuresAfterBuildOnly(fs, record, job) ==
    IF job.error # "" /\ job.msg = NoMessage
    THEN Append(fs, [itemIdentifier |-> record.messageId])
    ELSE fs

\* The except clause: any exception of the try body adds the record's id.
FailuresAfter(fs, record, job) ==
    IF job.error # "" THEN Append(fs, [itemIdentifier |-> record.messageId]) ELSE fs

\* ------------------------------------------------- lf2: the state machine

MessageIds == <<"m1", "m2", "m3", "m4", "m5">>

\* The payloads of the records of a batch of several jobs: the producer's,
\* one without a cuisine, one whose count is no numeral.
BatchStates ==
    {[k \in FieldKeys |-> BaseState(k)],
     [[k \in FieldKeys |-> BaseState(k)] EXCEPT !["cuisine"] = [ma |-> NoEntry, sys |-> Absent]],
     [[k \in FieldKeys |-> BaseState(k)] EXCEPT
         !["count"] = [ma |-> EntryLower("String", "four"), sys |-> Absent]]}

BaseRecord == Record(MessageIds[1], [k \in FieldKeys |-> BaseState(k)])

\* A batch of several jobs, each with one of the collaborators down or none.
DeliveredBatch ==
    \E n \in 0..MaxJobs :
        \E st \in [1..n -> BatchStates], es \in [1..n -> SmallEnvs] :
            /\ records = [k \in 1..n |-> Record(MessageIds[k], st[k])]
            /\ env = es

\* One job of any raw payload.
DeliveredPayload ==
    \E E \in {X \in SUBSET FieldKeys : Cardinality(X) <= MaxEdits} :
        \E st \in EditedStates(E) :
            /\ records = <<Record(MessageIds[1], st)>>
            /\ env = <<EnvTypical>>

\* One job of the producer's payload, with any answer of the index and table.
DeliveredRequest ==
    \E h \in HitSeqs, f \in SUBSET IdSet, r \in BOOLEAN :
        /\ records = <<BaseRecord>>
        /\ env = <<EnvOk(h, f, r)>>

DialogIdle ==
    /\ event = [name |-> Absent, slotsKind |-> "dict", slots |-> <<>>,
                invocationSource |-> Absent, inputTranscript |-> Absent]
    /\ sqsUp = TRUE
    /\ outcome = NoOutcome
    /\ sendCalls = <<>>
    /\ elicited = <<>>

InitWorker ==
    /\ (DeliveredBatch \/ DeliveredPayload \/ DeliveredRequest)
    /\ pos = 0
    /\ jobs = <<>>
    /\ failures = <<>>
    /\ outbox = <<>>
    /\ response = NotReturned
    /\ trace = <<>>
    /\ DialogIdle
    /\ ScraperIdle

\* One pass of the loop of lambda_handler: the next record, whole.
ProcessRecord ==
    /\ ~response.returned
    /\ pos < Len(records)
    /\ LET record == records[pos + 1]
           job    == TryBody(record, env[pos + 1])
       IN  /\ jobs' = Append(jobs, job)
           /\ failures' = FailuresAfter(failures, record, job)
           /\ outbox' = IF job.delivered
                        THEN Append(outbox, [messageId |-> record.messageId,
                                             email |-> job.email])
                        ELSE outbox
           /\ trace' = trace \o StepsOf(pos + 1, job)
    /\ pos' = pos + 1
    /\ UNCHANGED <<records, env, response>>
    /\ UNCHANGED dialogVars
    /\ UNCHANGED scraperVars

\* The return after the loop.
ReturnBatch ==
    /\ ~response.returned
    /\ pos = Len(records)
    /\ response' = [returned |-> TRUE, batchItemFailures |-> failures]
    /\ UNCHANGED <<records, env, pos, jobs, failures, outbox, trace>>
    /\ UNCHANGED dialogVars
    /\ UNCHANGED scraperVars

NextWorker == ProcessRecord \/ ReturnBatch

SpecWorker == InitWorker /\ [][NextWorker]_vars

\* --------------------------------------------------------- lf2: the claims

\* Whether normalization or fulfillment of record k raises: its message
\* cannot be built, or a collaborator the pipeline calls for it is down.
JobRaises(k) ==
    \/ ~BuildMessage(records[k]).ok
    \/ ~env[k].searchOk
    \/ BusinessIds(env[k].hits, 1) # <<>> /\ ~env[k].ddbOk
    \/ ~env[k].sesOk

FailureSet(fs) == {fs[k].itemIdentifier : k \in 1..Len(fs)}

NotifiedCount(id) ==
    Cardinality({k \in 1..Len(outbox) : outbox[k].messageId = id})

\* C8: the returned failure set is exactly the ids of the jobs that raised;
\* every job of the batch was processed, whatever its siblings did; a job
\* that succeeded was notified exactly once and is not in the set.
C8_FailureSetIsExactlyTheRaisedJobs ==
    response.returned =>
        /\ Len(jobs) = Len(records)
        /\ FailureSet(response.batchItemFailures)
              = {records[k].messageId : k \in {j \in 1..Len(records) : JobRaises(j)}}
        /\ \A k \in 1..Len(records) :
              ~JobRaises(k) =>
                  /\ NotifiedCount(records[k].messageId) = 1
                  /\ records[k].messageId \notin FailureSet(response.batchItemFailures)
        /\ \A k \in 1..Len(records) :
              JobRaises(k) => NotifiedCount(records[k].messageId) = 0

C8_Witness ==
    /\ response.returned
    /\ Len(records) = 3
    /\ ~BuildMessage(records[2]).ok
    /\ ~JobRaises(1)
    /\ ~JobRaises(3)
    /\ response.batchItemFailures = <<[itemIdentifier |-> records[2].messageId]>>
    /\ NotifiedCount(records[1].messageId) = 1
    /\ NotifiedCount(records[3].messageId) = 1

\* C9: the ordered result has one entry per hit, in hit order: the table's
\* item for the hit's id when the table resolved it, else a placeholder
\* holding only the id.
C9_OrderedResultFollowsHits ==
    \A k \in 1..Len(jobs) :
        jobs[k].resolved =>
            /\ Len(jobs[k].ordered) = Len(env[k].hits)
            /\ \A i \in 1..Len(env[k].hits) :
                  LET id == IF env[k].hits[i].business_id # Absent
                            THEN env[k].hits[i].business_id
                            ELSE env[k].hits[i].id
                  IN  jobs[k].ordered[i] =
                          IF id \in env[k].found THEN StoreItem(id)
                          ELSE [business_id |-> id]

C9_Witness ==
    /\ Len(jobs) = 1
    /\ jobs[1].resolved
    /\ jobs[1].business_ids = <<"A", "B", "C">>
    /\ env[1].found = {"A", "C"}
    /\ env[1].reversed
    /\ jobs[1].ordered = <<StoreItem("A"), [business_id |-> "B"], StoreItem("C")>>

\* A field is given when one of its accepted keys holds a String attribute
\* with a non-empty value, or a non-empty value under attributes.
FieldGiven(record, names) ==
    \E i \in 1..Len(names) :
        LET v == record.messageAttributes[names[i]] IN
        \/ /\ v.present
           /\ "String" \in {v.dataType, v.DataType}
           /\ {v.stringValue, v.StringValue} \ {Absent, ""} # {}
        \/ record.attributes[names[i]] \notin {Absent, ""}

FieldsNotGiven(record) ==
    {f \in 1..Len(FieldNames) : ~FieldGiven(record, FieldNames[f])}

\* C10: a record with exactly one field not given fails with the missing
\* attribute error naming that field's keys; no message is built, no
\* collaborator is called, nothing is sent, and the record is reported failed.
C10_OneMissingFieldIsNamed ==
    \A k \in 1..Len(jobs) :
        Cardinality(FieldsNotGiven(records[k])) = 1 =>
            /\ \A f \in FieldsNotGiven(records[k]) :
                  jobs[k].error = MissingAttribute(FieldNames[f])
            /\ jobs[k].msg = NoMessage
            /\ jobs[k].calls = <<>>
            /\ ~jobs[k].delivered
            /\ NotifiedCount(records[k].messageId) = 0
            /\ records[k].messageId \in FailureSet(failures)

C10_Witness ==
    /\ Len(jobs) = 1
    /\ FieldsNotGiven(records[1]) = {7}
    /\ records[1].attributes["cuisine"] = "thai"
    /\ ~records[1].messageAttributes["cuisine"].present
    /\ jobs[1].error = "Missing SQS message attribute (tried: location)"
    /\ failures = <<[itemIdentifier |-> "m1"]>>

\* The values a record gives under the keys of a field: the non-empty string
\* values of String attributes, and the non-empty entries of attributes.
GivenValues(record, names) ==
    UNION {LET v == record.messageAttributes[names[i]] IN
           (IF v.present /\ "String" \in {v.dataType, v.DataType}
            THEN {v.stringValue, v.StringValue} ELSE {})
           \cup {record.attributes[names[i]]} : i \in 1..Len(names)}
    \ {Absent, ""}

\* Every field is given, and the count given parses as an integer.
WellTyped(record) ==
    /\ FieldsNotGiven(record) = {}
    /\ \A v \in GivenValues(record, <<"count">>) : IsNumeral(v)

\* C11: a record with every field given and a numeral count builds a message
\* whose city, count, cuisine, date, diningTime, email and location are values
\* the record gives for them, with number_of_people the integer of the count;
\* the search query, the subject and the recipient use these values.
C11_MessageReproducesPayload ==
    \A k \in 1..Len(jobs) :
        WellTyped(records[k]) =>
            LET m == jobs[k].msg IN
            /\ m # NoMessage
            /\ m.city \in GivenValues(records[k], FieldNames[1])
            /\ m.count \in GivenValues(records[k], FieldNames[2])
            /\ m.cuisine \in GivenValues(records[k], FieldNames[3])
            /\ m.date \in GivenValues(records[k], FieldNames[4])
            /\ m.diningTime \in GivenValues(records[k], FieldNames[5])
            /\ m.email \in GivenValues(records[k], FieldNames[6])
            /\ m.location \in GivenValues(records[k], FieldNames[7])
            /\ m.number_of_people = IntOf[m.count]
            /\ jobs[k].query = [size |-> RESULT_LIMIT, match |-> m.cuisine]
            /\ jobs[k].email # NoEmail =>
                  /\ jobs[k].email.to = m.email
                  /\ jobs[k].email.subject.cuisine = Capitalize(m.cuisine)
                  /\ jobs[k].email.subject.num_people = m.number_of_people
                  /\ jobs[k].email.subject.time = m.diningTime

C11_Witness ==
    /\ Len(jobs) = 1
    /\ WellTyped(records[1])
    /\ records[1].messageAttributes["City"] = EntryUpper("String", "Manhattan")
    /\ records[1].attributes["email"] = "ann@x.io"
    /\ jobs[1].msg.number_of_people = 4
    /\ jobs[1].msg.location = "soho"
    /\ Len(outbox) = 1
    /\ outbox[1].email.to = "ann@x.io"

\* Whether an address of the model contains an "@".
ContainsAt(s) == s \in {"ann@x.io"}

\* C12: every message handed to the pipeline has a non-empty cuisine, a
\* count above zero, a non-empty city and a non-empty e-mail containing "@";
\* a record for which no message is built is reported failed and not notified.
C12_RequestsSatisfyInvariants ==
    \A k \in 1..Len(jobs) :
        LET m == jobs[k].msg IN
        /\ m # NoMessage =>
              /\ m.cuisine \notin {Absent, ""}
              /\ m.number_of_people > 0
              /\ m.city \notin {Absent, ""}
              /\ m.email \notin {Absent, ""}
              /\ ContainsAt(m.email)
        /\ m = NoMessage =>
              /\ records[k].messageId \in FailureSet(failures)
              /\ NotifiedCount(records[k].messageId) = 0

\* C13: a record that gives every field but the location, with a numeral
\* count, builds a message and is fulfilled: with the collaborators up it is
\* notified once and is not reported failed.
C13_EmptyLocalityIsFulfilled ==
    \A k \in 1..Len(jobs) :
        ( /\ FieldsNotGiven(records[k]) = {7}
          /\ \A v \in GivenValues(records[k], <<"count">>) : IsNumeral(v) )
        => /\ jobs[k].msg # NoMessage
           /\ (env[k].searchOk /\ env[k].ddbOk /\ env[k].sesOk)
              => /\ jobs[k].error = ""
                 /\ NotifiedCount(records[k].messageId) = 1
                 /\ records[k].messageId \notin FailureSet(failures)

\* The positions of a call in the calls a job made, in call order.
Positions(calls, c) == {i \in 1..Len(calls) : calls[i] = c}

\* C14: a job calls send_email at most once, and only after its search and,
\* when there are ids to resolve, its batch get have answered; a job whose
\* search or batch get failed sends nothing; a job that ran without error
\* sent exactly one e-mail.
C14_NotifiesOnceAfterResolution ==
    \A k \in 1..Len(jobs) :
        LET calls  == jobs[k].calls
            sends  == Positions(calls, "send_email")
            lookup == BusinessIds(env[k].hits, 1) # <<>>
            id     == records[k].messageId
        IN  /\ Cardinality(sends) <= 1
            /\ NotifiedCount(id) <= Cardinality(sends)
            /\ \A i \in sends :
                  /\ env[k].searchOk
                  /\ \E j \in Positions(calls, "search") : j < i
                  /\ lookup =>
                        /\ env[k].ddbOk
                        /\ \E j \in Positions(calls, "batch_get_item") : j < i
                  /\ jobs[k].resolved
            /\ (calls # <<>> /\ (~env[k].searchOk \/ (lookup /\ ~env[k].ddbOk)))
               => /\ sends = {}
                  /\ NotifiedCount(id) = 0
                  /\ jobs[k].error # ""
            /\ jobs[k].error = ""
               => /\ Cardinality(sends) = 1
                  /\ NotifiedCount(id) = 1

C14_Witness ==
    /\ Len(jobs) = 3
    /\ \A k \in 1..3 : jobs[k].msg # NoMessage
    /\ env[1] = EnvSearchDown
    /\ env[2] = EnvStoreDown
    /\ env[3] = EnvTypical
    /\ jobs[1].calls = <<"search">>
    /\ jobs[2].calls = <<"search", "batch_get_item">>
    /\ jobs[3].calls = <<"search", "batch_get_item", "send_email">>
    /\ Len(outbox) = 1
    /\ outbox[1].messageId = records[3].messageId

\* The missing-attribute errors of the seven fields.
MissingErrors == {MissingAttribute(FieldNames[f]) : f \in 1..Len(FieldNames)}

\* C17: a record that gives every field, with a count that is no numeral,
\* fails with the error naming 'count' and quoting the value given, which is
\* none of the missing-attribute errors; no message is built, no collaborator
\* is called, nothing is sent, and the record is reported failed.
C17_NonIntegerCountIsReported ==
    \A k \in 1..Len(jobs) :
        ( /\ FieldsNotGiven(records[k]) = {}
          /\ \A v \in GivenValues(records[k], <<"count">>) : ~IsNumeral(v) )
        => /\ \E v \in GivenValues(records[k], <<"count">>) :
                 jobs[k].error = "Attribute 'count' is not an integer: '" \o v \o "'"
           /\ jobs[k].error \notin MissingErrors
           /\ jobs[k].msg = NoMessage
           /\ jobs[k].calls = <<>>
           /\ NotifiedCount(records[k].messageId) = 0
           /\ records[k].messageId \in FailureSet(failures)

C17_Witness ==
    /\ Len(jobs) = 1
    /\ FieldsNotGiven(records[1]) = {}
    /\ records[1].messageAttributes["count"] = EntryLower("String", "four")
    /\ jobs[1].error = "Attribute 'count' is not an integer: 'four'"
    /\ outbox = <<>>
    /\ failures = <<[itemIdentifier |-> "m1"]>>

\* C18: a job whose message is built and whose search answers with no hits
\* does not fail on that account: no ids, an empty ordered result, no call of
\* the table; the e-mail is sent once, with a count of 0 in the subject and in
\* both bodies, and the record is not reported failed.
C18_NoHitsStillNotifies ==
    \A k \in 1..Len(jobs) :
        ( /\ jobs[k].msg # NoMessage
          /\ env[k].searchOk
          /\ env[k].hits = <<>>
          /\ env[k].sesOk )
        => /\ jobs[k].error = ""
           /\ jobs[k].business_ids = <<>>
           /\ jobs[k].ordered = <<>>
           /\ jobs[k].calls = <<"search", "send_email">>
           /\ jobs[k].email.subject.count = 0
           /\ jobs[k].email.html.count = 0
           /\ jobs[k].email.text.count = 0
           /\ NotifiedCount(records[k].messageId) = 1
           /\ records[k].messageId \notin FailureSet(failures)

C18_Witness ==
    /\ Len(jobs) = 1
    /\ env[1].hits = <<>>
    /\ env[1].found = {"A", "B"}
    /\ jobs[1].calls = <<"search", "send_email">>
    /\ Len(outbox) = 1
    /\ outbox[1].email.subject.count = 0
    /\ failures = <<>>

\* C19: the HTML body and the text body of an e-mail carry the same count,
\* cuisine, party size, time and city, and list the same businesses in the
\* same order, each with the same name, address, rating, review count and,
\* when the business has one, website.
C19_RenderingsCarrySameContent ==
    \A k \in 1..Len(jobs) :
        jobs[k].email # NoEmail =>
            LET h == jobs[k].email.html
                t == jobs[k].email.text
            IN  /\ h.count = t.count
                /\ h.cuisine = t.cuisine
                /\ h.num_people = t.num_people
                /\ h.time = t.time
                /\ Get(h, "city", Absent) = Get(t, "city", Absent)
                /\ Len(h.items) = Len(t.items)
                /\ \A i \in 1..Len(h.items) :
                      /\ h.items[i].name = t.items[i].name
                      /\ h.items[i].address = t.items[i].address
                      /\ h.items[i].rating = t.items[i].rating
                      /\ h.items[i].review_count = t.items[i].review_count
                      /\ Get(h.items[i], "website", Absent)
                            = Get(t.items[i], "website", Absent)

\* The positions of the trace that are steps of record k.
StepsOfRecord(k) == {i \in 1..Len(trace) : trace[i].record = k}

\* C20: the steps of the records of a batch do not interleave and follow
\* batch order; the steps of a record begin with its normalization, which
\* precedes its search, batch get and send, and end with the record
\* processed or its id appended to failures, before the next record begins.
C20_JobsRunOneAfterAnother ==
    /\ \A i \in 1..Len(trace), j \in 1..Len(trace) :
          i < j => trace[i].record <= trace[j].record
    /\ {trace[i].record : i \in 1..Len(trace)} = 1..pos
    /\ \A k \in 1..pos :
          LET S     == StepsOfRecord(k)
              first == CHOOSE i \in S : \A j \in S : i <= j
              last  == CHOOSE i \in S : \A j \in S : j <= i
          IN  /\ trace[first].step = "normalize"
              /\ \A i \in S : trace[i].step = "normalize" => i = first
              /\ trace[last].step \in {"processed", "failed"}
              /\ \A i \in S : trace[i].step \in {"processed", "failed"} => i = last
              /\ trace[last].step = "failed"
                    <=> records[k].messageId \in FailureSet(failures)
              /\ \A i \in S \ {first, last} :
                    trace[i].step \in {"search", "batch_get_item", "send_email"}

C20_Witness ==
    /\ pos = 3
    /\ Len(trace) = 10
    /\ trace[1] = [record |-> 1, step |-> "normalize"]
    /\ trace[5] = [record |-> 1, step |-> "processed"]
    /\ trace[6] = [record |-> 2, step |-> "normalize"]
    /\ trace[7] = [record |-> 2, step |-> "failed"]
    /\ trace[8] = [record |-> 3, step |-> "normalize"]
    /\ trace[9] = [record |-> 3, step |-> "search"]
    /\ trace[10] = [record |-> 3, step |-> "failed"]

\* ------------------------------------------- lf1 to lf2: the queue between

\* What a slot of the seven holds besides the producer's value: a value with
\* an empty or no interpreted value, or nothing; the count also other texts.
SlotVariants(name) ==
    {SlotNone, SlotNoInterp, SlotEmptyInterp}
    \cup {SlotFilled(v) : v \in KeyValues(name)}

RECURSIVE SevenSlotMaps(_)
\* The slot maps of the seven declared slots with the slots at the
\* positions of E holding any of their variants and the others their value.
SevenSlotMaps(E) ==
    IF E = {}
    THEN {[k \in 1..Len(DeclaredOrder) |->
             [name |-> DeclaredOrder[k],
              slot |-> SlotFilled(BaseValue(DeclaredOrder[k]))]]}
    ELSE LET k == CHOOSE x \in E : TRUE IN
         {[m EXCEPT ![k].slot = v] :
             m \in SevenSlotMaps(E \ {k}), v \in SlotVariants(DeclaredOrder[k])}

\* The record the SQS event source hands to lf2 for a message sent with
\* these MessageAttributes: lower-case dataType and stringValue, no body.
DeliveredRecord(id, attrs) ==
    [messageId         |-> id,
     messageAttributes |->
         [k \in FieldKeys |->
             IF \E i \in 1..Len(attrs) : attrs[i].key = k
             THEN LET a == attrs[CHOOSE i \in 1..Len(attrs) : attrs[i].key = k]
                  IN  EntryLower(a.DataType, a.StringValue)
             ELSE NoEntry],
     attributes        |-> [k \in FieldKeys |-> Absent]]

InitPipeline ==
    /\ \E E \in {X \in SUBSET (1..Len(DeclaredOrder)) : Cardinality(X) <= MaxEdits} :
          \E m \in SevenSlotMaps(E) :
              \E src \in {"DialogCodeHook", "FulfillmentCodeHook"} :
                  event = [name |-> "DiningSuggestionIntent", slotsKind |-> "dict",
                           slots |-> m, invocationSource |-> src,
                           inputTranscript |-> "hi"]
    /\ sqsUp \in BOOLEAN
    /\ outcome = NoOutcome
    /\ sendCalls = <<>>
    /\ elicited = <<>>
    /\ WorkerIdle
    /\ ScraperIdle

\* SQS delivers the message the turn sent, as a batch of one record.
Deliver ==
    /\ outcome.kind = "return"
    /\ sendCalls # <<>>
    /\ sqsUp
    /\ records = <<>>
    /\ ~response.returned
    /\ records' = <<DeliveredRecord(MessageIds[1], sendCalls[1])>>
    /\ env' = <<EnvTypical>>
    /\ UNCHANGED <<pos, jobs, failures, outbox, response, trace>>
    /\ UNCHANGED dialogVars
    /\ UNCHANGED scraperVars

NextPipeline == HandleTurn \/ Deliver \/ ProcessRecord \/ ReturnBatch

SpecPipeline == InitPipeline /\ [][NextPipeline]_vars

\* The count slot holds an integer numeral.
CountSlotNumeral ==
    \E k \in 1..Len(event.slots) :
        /\ event.slots[k].name = "count"
        /\ IsNumeral(event.slots[k].slot.interp)

\* C22: a message sent for a turn over the seven declared slots with a
\* numeral count holds, for every field lf2 reads, a String attribute under
\* one of the field's keys with a non-empty value; and the record delivered
\* for a turn that ended Close/Fulfilled builds a message in lf2, failing
\* with no missing-attribute error.
C22_PublishedIsAccepted ==
    (TurnDone /\ CountSlotNumeral /\ sendCalls # <<>>)
    => /\ \A f \in 1..Len(FieldNames) :
             \E i \in 1..Len(sendCalls[1]), n \in 1..Len(FieldNames[f]) :
                 /\ sendCalls[1][i].key = FieldNames[f][n]
                 /\ sendCalls[1][i].DataType = "String"
                 /\ sendCalls[1][i].StringValue \notin {Absent, ""}
       /\ CloseWith("Fulfilled") =>
             \A k \in 1..Len(jobs) :
                 /\ jobs[k].msg # NoMessage
                 /\ jobs[k].error \notin MissingErrors

\* ------------------------------------------- scraperv2: the pagination

PAGE_LIMIT == 50

MAX_OFFSET == 1000

DEFAULT_MIN_RESULTS == 200

\* Businesses in one page of the listing API's answer.
MaxPage == 2

Min(a, b) == IF a <= b THEN a ELSE b

\* max(0, a - b)
Monus(a, b) == IF a > b THEN a - b ELSE 0

\* --min-results: none wanted, fewer than there are businesses, the default.
MinResultsArgs == {0, 2, DEFAULT_MIN_RESULTS}

\* data.get("total") or 0: not given, or fewer than a page, a few pages,
\* more than the offset cap.
Totals == {0, 30, 120, 2400}

\* data.get("businesses"): each with an id of the table's, or with none.
Pages == UNION {[1..n -> IdSet \cup {Absent}] : n \in 0..MaxPage}

\* What fetch_page meets: a JSON body, or an HTTP error status.
PageResponses ==
    [status : {200}, total : Totals, businesses : Pages]
    \cup [status : {400, 500}, total : {0}, businesses : {<<>>}]

\* page_limit of lines 142-145.
PageLimit(off, total) ==
    LET capped == Min(PAGE_LIMIT, Monus(MAX_OFFSET, off))
    IN  IF ~total.known THEN capped ELSE Min(capped, Monus(total.value, off))

\* Why the loop ends without a request: its condition is false, the offset
\* is at the total or the cap, or the page size is not positive; "" when it
\* goes on to request a page.
StopReason ==
    IF ~(collected < min_results /\ offset < MAX_OFFSET) THEN "loop condition"
    ELSE IF total_from_api.known /\ offset >= Min(total_from_api.value, MAX_OFFSET)
    THEN "end of results"
    ELSE IF PageLimit(offset, total_from_api) <= 0 THEN "no more results"
    ELSE ""

\* The loop over a page's businesses with the `bid in seen` test dropped.
PutAll(businesses, sn, wr) ==
    LET ids == SelectSeq(businesses, LAMBDA b : b # Absent)
    IN  [seen |-> sn \cup {ids[k] : k \in 1..Len(ids)}, written |-> wr \o ids]

RECURSIVE PutNew(_, _, _)
\* The loop over a page's businesses: one put_item per id not yet seen.
PutNew(businesses, sn, wr) ==
    IF businesses = <<>> THEN [seen |-> sn, written |-> wr]
    ELSE LET bid == Head(businesses) IN
         IF bid = Absent \/ bid \in sn THEN PutNew(Tail(businesses), sn, wr)
         ELSE PutNew(Tail(businesses), sn \cup {bid}, Append(wr, bid))

InitScraper ==
    /\ min_results \in MinResultsArgs
    /\ seen = {}
    /\ collected = 0
    /\ offset = 0
    /\ total_from_api = NoTotal
    /\ requested = <<>>
    /\ written = <<>>
    /\ stopped = "running"
    /\ DialogIdle
    /\ WorkerIdle

\* A pass of the loop that ends it before any request.
StopLoop ==
    /\ stopped = "running"
    /\ StopReason # ""
    /\ stopped' = StopReason
    /\ UNCHANGED <<min_results, seen, collected, offset, total_from_api,
                   requested, written>>
    /\ UNCHANGED dialogVars
    /\ UNCHANGED workerVars

\* A pass of the loop that requests a page: an HTTP error ends the loop (a
\* 400 past the first page) or is raised; an empty page ends it; else the
\* new businesses are put and the offset advances by the page size.
FetchPage ==
    /\ stopped = "running"
    /\ StopReason = ""
    /\ \E resp \in PageResponses :
          LET page_limit == PageLimit(offset, total_from_api)
              total == IF total_from_api.known THEN total_from_api
                       ELSE Total(resp.total)
              put   == PutNew(resp.businesses, seen, written)
          IN  /\ requested' = Append(requested, [limit |-> page_limit, offset |-> offset])
              /\ IF resp.status # 200
                 THEN /\ stopped' = IF resp.status = 400 /\ offset > 0
                                    THEN "http 400" ELSE "raised"
                      /\ UNCHANGED <<seen, collected, offset, total_from_api, written>>
                 ELSE /\ total_from_api' = total
                      /\ IF resp.businesses = <<>>
                         THEN /\ stopped' = "empty page"
                              /\ UNCHANGED <<seen, collected, offset, written>>
                         ELSE /\ seen' = put.seen
                              /\ written' = put.written
                              /\ collected' = collected + (Len(put.written) - Len(written))
                              /\ offset' = offset + page_limit
                              /\ UNCHANGED stopped
    /\ UNCHANGED min_results
    /\ UNCHANGED dialogVars
    /\ UNCHANGED workerVars

NextScraper == StopLoop \/ FetchPage

\* The loop runs on: main does nothing else until it ends.
SpecScraper == InitScraper /\ [][NextScraper]_vars /\ WF_vars(NextScraper)

\* ------------------------------------------------- scraperv2: the claims

\* Every request asks for 1 to PAGE_LIMIT businesses and ends within the cap.
RequestsInRange ==
    \A i \in 1..Len(requested) :
        /\ requested[i].limit >= 1
        /\ requested[i].limit <= PAGE_LIMIT
        /\ requested[i].offset + requested[i].limit <= MAX_OFFSET

OffsetsIncrease ==
    \A i \in 1..Len(requested), j \in 1..Len(requested) :
        i < j => requested[i].offset < requested[j].offset

WrittenOnce ==
    \A i \in 1..Len(written), j \in 1..Len(written) :
        written[i] = written[j] => i = j

\* The results ended: an empty page, the offset at the reported total or at
\* the cap, or a 400 past the first page.
ResultsEnded ==
    \/ stopped = "empty page"
    \/ total_from_api.known /\ offset >= total_from_api.value
    \/ offset >= MAX_OFFSET
    \/ stopped = "http 400" /\ offset > 0

PaginationSafe == RequestsInRange /\ OffsetsIncrease /\ WrittenOnce

\* C23 as stated: the loop ends; every request is in range, offsets strictly
\* increase, no id is put twice; and when the loop has ended, min_results
\* were collected or the results ended.
C23_LoopEndsCollectedOrExhausted ==
    /\ [](PaginationSafe
          /\ (stopped # "running" => (collected >= min_results \/ ResultsEnded)))
    /\ <>(stopped # "running")

\* C23 amended: as stated, with one more way out of the loop: the HTTP error
\* of a request, other than a 400 past the first page, raised out of main.
C23_LoopEndsCollectedExhaustedOrRaised ==
    /\ [](PaginationSafe
          /\ (stopped # "running" =>
                 \/ collected >= min_results
                 \/ ResultsEnded
                 \/ stopped = "raised" /\ requested # <<>>))
    /\ <>(stopped # "running")

C23_Witness ==
    /\ stopped = "loop condition"
    /\ min_results = DEFAULT_MIN_RESULTS
    /\ collected = 3
    /\ offset = MAX_OFFSET
    /\ Len(requested) = 20
    /\ requested[20] = [limit |-> 50, offset |-> 950]
    /\ Len(written) = 3

====
